---- MODULE Spec2Model ----
(***************************************************************************)
(* PharmaQuery (rag_tutorials/rag_chain/app.py): ingestion of uploaded    *)
(* PDF documents into a persistent vector store (add_to_db) and           *)
(* retrieval-augmented answering of a query (run_rag_chain), both driven   *)
(* by the Streamlit script main().                                         *)
(***************************************************************************)
EXTENDS Integers, Sequences, FiniteSets, TLC

\* ---------------------------------------------------------------- bounds

\* Longest page text, in tokens, given to the splitter on its own.
MaxTokens == 260
\* Most uploaded files in one "Submit & Process".
MaxBatch == 2
\* Most records the store holds when an ingestion call may still start.
MaxRecords == 3
\* Most records a persisted collection holds when the program starts.
MaxStore == 6
\* Most "Submit & Process" clicks in one run of the program.
MaxCalls == 2

\* ------------------------------------------------------ program constants

\* app.py:52, app.py:53, app.py:65
chunk_size == 100
chunk_overlap == 50
K == 5

\* ------------------------------------------------------------- utilities

Min(a, b) == IF a < b THEN a ELSE b

Prefix(s, n) == SubSeq(s, 1, n)

\* ------------------------------------------------------------- tokenizer

\* The splitter's tokenizer (app.py:51), one token per character of a small
\* vocabulary: encode maps a text to token ids, decode maps ids back to text.
Vocab == <<"a", "b", "\n", " ">>

encode(text) ==
    [i \in 1..Len(text) |-> CHOOSE v \in 1..Len(Vocab) : Vocab[v] = text[i]]

decode(ids) == [i \in 1..Len(ids) |-> Vocab[ids[i]]]

\* ---------------------------------------------------------------- splitter

\* SentenceTransformersTokenTextSplitter(chunk_size=100, chunk_overlap=50)
\* (app.py:50-54).  split_text walks the token ids: it emits the ids
\* [start, cur), stops once cur has reached the end, and otherwise advances
\* start by tokens_per_chunk - chunk_overlap.  A text with no token yields no
\* chunk: the loop "while start_idx < len(input_ids)" is never entered.
RECURSIVE split_from(_, _, _)
split_from(input_ids, start_idx, cur_idx) ==
    IF start_idx >= Len(input_ids) THEN <<>>
    ELSE LET chunk_ids == SubSeq(input_ids, start_idx + 1, cur_idx)
             next_start == start_idx + (chunk_size - chunk_overlap)
             next_cur == Min(next_start + chunk_size, Len(input_ids))
         IN  IF cur_idx = Len(input_ids)
             THEN <<decode(chunk_ids)>>
             ELSE <<decode(chunk_ids)>>
                      \o split_from(input_ids, next_start, next_cur)

split_text(text) ==
    LET input_ids == encode(text)
    IN  split_from(input_ids, 0, Min(chunk_size, Len(input_ids)))

\* create_documents(doc_content, doc_metadata) (app.py:55): the chunks of each
\* text in page order, each carrying a copy of its page's metadata.
RECURSIVE create_documents(_, _)
create_documents(texts, metadatas) ==
    IF texts = <<>> THEN <<>>
    ELSE LET splits == split_text(Head(texts))
         IN  [i \in 1..Len(splits) |->
                 [page_content |-> splits[i], metadata |-> Head(metadatas)]]
             \o create_documents(Tail(texts), Tail(metadatas))

\* A page text of L tokens.
PageText(L) ==
    [i \in 1..L |-> IF i % 7 = 0 THEN "\n" ELSE IF i % 2 = 0 THEN "a" ELSE "b"]

\* ------------------------------------------------------------ documents

\* The front end's uploads (app.py:134): a file name and the file's bytes.
\* Two uploads share the name a.pdf; b.pdf is not a readable PDF.
Uploads ==
    { [name |-> "a.pdf", bytes |-> "pdfA"],
      [name |-> "a.pdf", bytes |-> "pdfB"],
      [name |-> "b.pdf", bytes |-> "corrupt"] }

Names == {u.name : u \in Uploads}

\* What ./temp holds under a name: no file, the empty file that open(.., "wb")
\* leaves before the write (app.py:38), or an upload's bytes.
NoFile == "<absent>"
Truncated == ""

\* The page texts PyPDFLoader extracts from a file's bytes; only "pdfA" and
\* "pdfB" parse.  pdfA is one page of 120 tokens, pdfB a page of 3 tokens
\* followed by an empty page.
Parseable(bytes) == bytes \in {"pdfA", "pdfB"}

PdfPages(bytes) ==
    CASE bytes = "pdfA" -> <<PageText(120)>>
      [] bytes = "pdfB" -> <<PageText(3), PageText(0)>>
      [] OTHER -> <<>>

\* loader.load() (app.py:42-43) on a readable file: one Document per page.
load(path, bytes) ==
    LET pages == PdfPages(bytes)
    IN  [i \in 1..Len(pages) |->
            [page_content |-> pages[i],
             metadata |-> [source |-> path, page |-> i - 1]]]

\* app.py:46-55: the chunks of the loaded pages.
split_documents(data) ==
    create_documents([i \in 1..Len(data) |-> data[i].page_content],
                     [i \in 1..Len(data) |-> data[i].metadata])

\* The chunks a whole upload yields when nothing fails.
ChunksOf(u) == split_documents(load(u.name, u.bytes))

\* ----------------------------------------------------------------- store

\* A collection whose record ids are the chunks' positions in the call
\* (ids "0", "1", ...): a later call's chunks replace the records at the
\* same positions.
add_documents_upsert(store, chunks) ==
    [i \in 1..(IF Len(store) > Len(chunks) THEN Len(store) ELSE Len(chunks)) |->
        IF i <= Len(chunks) THEN chunks[i] ELSE store[i]]

\* A collection rebuilt from the call's chunks alone.
add_documents_reset(store, chunks) == chunks

\* db.add_documents(st_chunks) (app.py:58): the collection is appended to;
\* no id is passed, so no existing record is replaced.
add_documents(store, chunks) == store \o chunks

\* db.as_retriever(search_type="similarity", search_kwargs={'k': 5})
\* (app.py:65): the results a similarity search for k records may return, as
\* sequences of record positions.  The embedding geometry is not modelled:
\* any ranking of any min(k, n) distinct records is a possible result.
RECURSIVE Rankings(_, _)
Rankings(S, m) ==
    IF m = 0 THEN {<<>>}
    ELSE UNION {{<<x>> \o r : r \in Rankings(S \ {x}, m - 1)} : x \in S}

\* A search that refuses to answer when the collection holds fewer than k
\* records.
SearchResults_strict(store, k) ==
    IF Len(store) < k THEN {} ELSE Rankings(1..Len(store), k)

SearchResults(store, k) == Rankings(1..Len(store), Min(k, Len(store)))

\* ----------------------------------------------------------- orchestrator

\* format_docs (app.py:24-25): "\n\n".join(doc.page_content for doc in docs).
RECURSIVE join(_, _)
join(sep, items) ==
    IF items = <<>> THEN <<>>
    ELSE IF Len(items) = 1 THEN items[1]
    ELSE items[1] \o sep \o join(sep, Tail(items))

\* A context joined by single line breaks.
format_docs_newline(docs) ==
    join(<<"\n">>, [i \in 1..Len(docs) |-> docs[i].page_content])

format_docs(docs) ==
    join(<<"\n", "\n">>, [i \in 1..Len(docs) |-> docs[i].page_content])

\* rag_chain.invoke(query) (app.py:95-98) has no handler around the model
\* call: an exception ends the run.
\* A chain that calls the model again after a failure.
on_model_error_retry == "model"

on_model_error == "failed"

\* The queries the front end submits (app.py:106): the empty string, a
\* whitespace-only string and a question.
Queries == {<<>>, <<" ">>, <<"a", " ", "b">>}

Sessions == {1, 2}

VARIABLES
    \* the Chroma collection (app.py:20-22): a sequence of records
    db,
    \* the directory ./temp: file name -> content, or NoFile
    temp,
    \* per session: where "Submit & Process" (app.py:139-146) stands
    pc,
    \* per session: add_to_db's argument, and the position of its loop
    uploaded_files, idx,
    \* per session: loader.load()'s result and the splitter's chunks
    data, st_chunks,
    \* per session: the exception that ended the call, [kind, doc]
    error,
    \* per session: the bytes the loader read for the current file (history)
    read_bytes,
    \* per session: positions of the files whose chunks were added (history)
    inserted,
    \* per session: the collection's size when the call started (history)
    n0,
    \* "Submit & Process" clicks so far (history)
    nsubmit,
    \* where "Submit" (app.py:111-118) stands, and its query
    qpc, query,
    \* the retriever's result (record positions, ranked), the context string,
    \* the rendered prompt, the chain's answer
    retrieved, context, prompt, response,
    \* the collaborator calls of the current run, in order (history)
    calls,
    \* splitter on its own: the page text, its chunks, and whether it has run
    split_in, split_out, split_pc

store_vars == <<db, nsubmit>>
ing_vars == <<pc, uploaded_files, idx, data, st_chunks, error, read_bytes,
              inserted, n0>>
q_vars == <<qpc, query, retrieved, context, prompt, response, calls>>
split_vars == <<split_in, split_out, split_pc>>

vars == <<db, nsubmit, temp, pc, uploaded_files, idx, data, st_chunks, error,
          read_bytes, inserted, n0, qpc, query, retrieved, context, prompt,
          response, calls, split_in, split_out, split_pc>>

NoError == [kind |-> "none", doc |-> 0]
NoPrompt == [context |-> <<>>, question |-> <<>>]

StoreEmpty == db = <<>> /\ nsubmit = 0

TempEmpty == temp = [n \in Names |-> NoFile]

SessionsIdle ==
    /\ pc = [s \in Sessions |-> "idle"]
    /\ uploaded_files = [s \in Sessions |-> <<>>]
    /\ idx = [s \in Sessions |-> 0]
    /\ data = [s \in Sessions |-> <<>>]
    /\ st_chunks = [s \in Sessions |-> <<>>]
    /\ error = [s \in Sessions |-> NoError]
    /\ read_bytes = [s \in Sessions |-> NoFile]
    /\ inserted = [s \in Sessions |-> {}]
    /\ n0 = [s \in Sessions |-> 0]

QueryIdle ==
    /\ qpc = "idle"
    /\ query = <<>>
    /\ retrieved = <<>>
    /\ context = <<>>
    /\ prompt = NoPrompt
    /\ response = "none"
    /\ calls = <<>>

SplitIdle == split_in = <<>> /\ split_out = <<>> /\ split_pc = "idle"

\* ------------------------------------------------------------- ingestion

Batches == UNION {[1..n -> Uploads] : n \in 0..MaxBatch}

RECURSIVE TotalChunks(_)
TotalChunks(files) ==
    IF files = <<>> THEN 0
    ELSE Len(ChunksOf(Head(files))) + TotalChunks(Tail(files))

Ended(p) == p \in {"idle", "warned", "done", "failed"}

QueryQuiet == qpc \in {"idle", "warned", "returned", "failed"}

\* The file add_to_db is working on, and its path under ./temp (app.py:35).
uploaded_file(s) == uploaded_files[s][idx[s]]
temp_file_path(s) == uploaded_file(s).name

\* An exception leaves add_to_db and main (no try/except/finally anywhere):
\* the script run ends and Streamlit shows the error.
Raise(s, kind) ==
    /\ pc' = [pc EXCEPT ![s] = "failed"]
    /\ error' = [error EXCEPT ![s] = [kind |-> kind, doc |-> idx[s]]]

\* "Submit & Process" (app.py:139-145): no file gives a warning, otherwise
\* add_to_db(pdf_docs) starts on the first file.
SubmitProcess(s, pdf_docs) ==
    /\ Ended(pc[s]) /\ QueryQuiet
    /\ nsubmit < MaxCalls
    /\ Len(db) + TotalChunks(pdf_docs) <= MaxRecords
    /\ nsubmit' = nsubmit + 1
    /\ uploaded_files' = [uploaded_files EXCEPT ![s] = pdf_docs]
    /\ idx' = [idx EXCEPT ![s] = IF pdf_docs = <<>> THEN 0 ELSE 1]
    /\ pc' = [pc EXCEPT ![s] = IF pdf_docs = <<>> THEN "warned" ELSE "open"]
    /\ data' = [data EXCEPT ![s] = <<>>]
    /\ st_chunks' = [st_chunks EXCEPT ![s] = <<>>]
    /\ error' = [error EXCEPT ![s] = NoError]
    /\ read_bytes' = [read_bytes EXCEPT ![s] = NoFile]
    /\ inserted' = [inserted EXCEPT ![s] = {}]
    /\ n0' = [n0 EXCEPT ![s] = Len(db)]
    /\ UNCHANGED <<db, temp, q_vars, split_vars>>

\* app.py:35-38: open(temp_file_path, "wb") creates or truncates the file.
OpenTemp(s) ==
    /\ pc[s] = "open"
    /\ temp' = [temp EXCEPT ![temp_file_path(s)] = Truncated]
    /\ pc' = [pc EXCEPT ![s] = "write"]
    /\ UNCHANGED <<store_vars, uploaded_files, idx, data, st_chunks, error,
                   read_bytes, inserted, n0, q_vars, split_vars>>

\* app.py:39: temp_file.write(uploaded_file.getbuffer()), then the file closes.
WriteTemp(s) ==
    /\ pc[s] = "write"
    /\ temp' = [temp EXCEPT ![temp_file_path(s)] = uploaded_file(s).bytes]
    /\ pc' = [pc EXCEPT ![s] = "load"]
    /\ UNCHANGED <<store_vars, uploaded_files, idx, data, st_chunks, error,
                   read_bytes, inserted, n0, q_vars, split_vars>>

\* app.py:42-43: PyPDFLoader(temp_file_path).load() reads whatever the path
\* holds now; a missing file or bytes that do not parse raise.
Load(s) ==
    /\ pc[s] = "load"
    /\ LET bytes == temp[temp_file_path(s)]
       IN  /\ read_bytes' = [read_bytes EXCEPT ![s] = bytes]
           /\ IF Parseable(bytes)
              THEN /\ data' = [data EXCEPT
                                  ![s] = load(temp_file_path(s), bytes)]
                   /\ pc' = [pc EXCEPT ![s] = "split"]
                   /\ UNCHANGED error
              ELSE /\ Raise(s, IF bytes = NoFile THEN "FileNotFound"
                                                 ELSE "LoadError")
                   /\ UNCHANGED data
    /\ UNCHANGED <<store_vars, temp, uploaded_files, idx, st_chunks, inserted,
                   n0, q_vars, split_vars>>

\* app.py:46-55: the pages' texts and metadata are split into chunks.
Split(s) ==
    /\ pc[s] = "split"
    /\ st_chunks' = [st_chunks EXCEPT ![s] = split_documents(data[s])]
    /\ pc' = [pc EXCEPT ![s] = "add"]
    /\ UNCHANGED <<store_vars, temp, uploaded_files, idx, data, error,
                   read_bytes, inserted, n0, q_vars, split_vars>>

\* app.py:50-54: constructing the splitter loads its tokenizer model, which
\* can fail.
SplitFails(s) ==
    /\ pc[s] = "split"
    /\ Raise(s, "SplitError")
    /\ UNCHANGED <<store_vars, temp, uploaded_files, idx, data, st_chunks,
                   read_bytes, inserted, n0, q_vars, split_vars>>

\* app.py:58: db.add_documents(st_chunks) embeds and appends every chunk.
AddDocuments(s) ==
    /\ pc[s] = "add"
    /\ db' = add_documents(db, st_chunks[s])
    /\ inserted' = [inserted EXCEPT ![s] = @ \cup {idx[s]}]
    /\ pc' = [pc EXCEPT ![s] = "remove"]
    /\ UNCHANGED <<temp, uploaded_files, idx, data, st_chunks, error,
                   read_bytes, n0, nsubmit, q_vars, split_vars>>

\* app.py:58: the embedding function (or the store) fails after j of the
\* chunks were committed; nothing takes them back.
AddDocumentsFails(s, j) ==
    /\ pc[s] = "add"
    /\ j < Len(st_chunks[s])
    /\ db' = add_documents(db, Prefix(st_chunks[s], j))
    /\ Raise(s, "EmbeddingError")
    /\ UNCHANGED <<temp, uploaded_files, idx, data, st_chunks, read_bytes,
                   inserted, n0, nsubmit, q_vars, split_vars>>

\* app.py:61 and the loop's next round (app.py:33), or add_to_db's return and
\* st.success (app.py:146): os.remove raises when the path holds no file.
RemoveTemp(s) ==
    /\ pc[s] = "remove"
    /\ IF temp[temp_file_path(s)] = NoFile
       THEN /\ Raise(s, "FileNotFound")
            /\ UNCHANGED <<temp, idx>>
       ELSE /\ temp' = [temp EXCEPT ![temp_file_path(s)] = NoFile]
            /\ IF idx[s] < Len(uploaded_files[s])
               THEN /\ idx' = [idx EXCEPT ![s] = @ + 1]
                    /\ pc' = [pc EXCEPT ![s] = "open"]
               ELSE /\ pc' = [pc EXCEPT ![s] = "done"]
                    /\ UNCHANGED idx
            /\ UNCHANGED error
    /\ UNCHANGED <<store_vars, uploaded_files, data, st_chunks, read_bytes,
                   inserted, n0, q_vars, split_vars>>

Ingest(s) ==
    \/ \E pdf_docs \in Batches : SubmitProcess(s, pdf_docs)
    \/ OpenTemp(s)
    \/ WriteTemp(s)
    \/ Load(s)
    \/ Split(s)
    \/ SplitFails(s)
    \/ AddDocuments(s)
    \/ \E j \in 0..MaxRecords : AddDocumentsFails(s, j)
    \/ RemoveTemp(s)

\* ----------------------------------------------------------------- query

\* The Documents the retriever hands on: the records at the ranked positions.
retrieved_docs == [i \in 1..Len(retrieved) |-> db[retrieved[i]]]

\* "Submit" (app.py:111-117): "if not query" turns away the empty string
\* only; every other string goes to run_rag_chain(query).
SubmitQuery(q) ==
    /\ QueryQuiet /\ \A s \in Sessions : Ended(pc[s])
    /\ query' = q
    /\ qpc' = IF q = <<>> THEN "warned" ELSE "retrieve"
    /\ retrieved' = <<>>
    /\ context' = <<>>
    /\ prompt' = NoPrompt
    /\ response' = "none"
    /\ calls' = <<>>
    /\ UNCHANGED <<store_vars, temp, ing_vars, split_vars>>

\* The chain's first stage (app.py:65, 95): the retriever embeds the query
\* and searches the collection for K records.
Retrieve ==
    /\ qpc = "retrieve"
    /\ \E r \in SearchResults(db, K) : retrieved' = r
    /\ calls' = Append(calls, "search")
    /\ qpc' = "format"
    /\ UNCHANGED <<store_vars, temp, ing_vars, query, context, prompt,
                   response, split_vars>>

\* The embedding function fails on the query text: the chain raises.
RetrieveFails ==
    /\ qpc = "retrieve"
    /\ calls' = Append(calls, "search")
    /\ qpc' = "failed"
    /\ UNCHANGED <<store_vars, temp, ing_vars, query, retrieved, context,
                   prompt, response, split_vars>>

\* retriever | format_docs (app.py:95).
FormatContext ==
    /\ qpc = "format"
    /\ context' = format_docs(retrieved_docs)
    /\ qpc' = "prompt"
    /\ UNCHANGED <<store_vars, temp, ing_vars, query, retrieved, prompt,
                   response, calls, split_vars>>

\* prompt_template (app.py:68-82, 95): {context} and {question} are filled
\* with the context string and the query as passed through.
RenderPrompt ==
    /\ qpc = "prompt"
    /\ prompt' = [context |-> context, question |-> query]
    /\ calls' = Append(calls, "prompt")
    /\ qpc' = "model"
    /\ UNCHANGED <<store_vars, temp, ing_vars, query, retrieved, context,
                   response, split_vars>>

\* chat_model (app.py:85-89, 95) answers the rendered prompt.
InvokeModel ==
    /\ qpc = "model"
    /\ calls' = Append(calls, "model")
    /\ qpc' = "parse"
    /\ UNCHANGED <<store_vars, temp, ing_vars, query, retrieved, context,
                   prompt, response, split_vars>>

\* The model call raises (no or bad API key, upstream failure).
InvokeModelFails ==
    /\ qpc = "model"
    /\ calls' = Append(calls, "model")
    /\ qpc' = on_model_error
    /\ UNCHANGED <<store_vars, temp, ing_vars, query, retrieved, context,
                   prompt, response, split_vars>>

\* output_parser (app.py:92, 95), return (app.py:100), st.write (app.py:118).
ParseOutput ==
    /\ qpc = "parse"
    /\ response' = "answer"
    /\ qpc' = "returned"
    /\ UNCHANGED <<store_vars, temp, ing_vars, query, retrieved, context,
                   prompt, calls, split_vars>>

Query ==
    \/ \E q \in Queries : SubmitQuery(q)
    \/ Retrieve
    \/ RetrieveFails
    \/ FormatContext
    \/ RenderPrompt
    \/ InvokeModel
    \/ InvokeModelFails
    \/ ParseOutput

\* --------------------------------------------- one session, empty collection

\* The program with one browser session: each click runs the script to its
\* end before the next one is handled.
Init ==
    /\ StoreEmpty /\ TempEmpty /\ SessionsIdle /\ QueryIdle /\ SplitIdle

Next == Ingest(1) \/ Query

Spec == Init /\ [][Next]_vars

\* ------------------------------------------ queries on a persisted collection

\* ./pharma_db persists across runs (app.py:22): the program may start on a
\* collection earlier runs filled.  Its records here come from short pages.
PersistedTexts == << <<"a">>, <<"b", "\n", "\n", "a">>, <<"\n">>, <<"a", "b">> >>

PersistedStore(n) ==
    [i \in 1..n |->
        [page_content |-> PersistedTexts[((i - 1) % Len(PersistedTexts)) + 1],
         metadata |-> [source |-> "old.pdf", page |-> i - 1]]]

InitQuery ==
    /\ \E n \in 0..MaxStore : db = PersistedStore(n)
    /\ nsubmit = 0
    /\ TempEmpty /\ SessionsIdle /\ QueryIdle /\ SplitIdle

NextQuery == Query

SpecQuery == InitQuery /\ [][NextQuery]_vars

\* ------------------------------------------------- two sessions ingesting

\* Streamlit runs each browser session's script in a thread of its own: two
\* sessions' add_to_db calls interleave at every file-system and store call.
InitConc ==
    /\ StoreEmpty /\ TempEmpty /\ SessionsIdle /\ QueryIdle /\ SplitIdle

NextConc == \E s \in Sessions : Ingest(s)

SpecConc == InitConc /\ [][NextConc]_vars

\* ------------------------------------------------- the splitter on its own

InitSplit ==
    /\ \E L \in 0..MaxTokens : split_in = PageText(L)
    /\ split_out = <<>>
    /\ split_pc = "ready"
    /\ StoreEmpty /\ TempEmpty /\ SessionsIdle /\ QueryIdle

SplitText ==
    /\ split_pc = "ready"
    /\ split_out' = split_text(split_in)
    /\ split_pc' = "done"
    /\ UNCHANGED <<split_in, store_vars, temp, ing_vars, q_vars>>

NextSplit == SplitText

SpecSplit == InitSplit /\ [][NextSplit]_vars

\* ================================================================ claims

IsPrefix(s, t) == Len(s) <= Len(t) /\ SubSeq(t, 1, Len(s)) = s

RECURSIVE Concat(_)
Concat(ss) == IF ss = <<>> THEN <<>> ELSE Head(ss) \o Concat(Tail(ss))

\* A query that is empty or holds white space only.
IsBlank(q) == \A i \in 1..Len(q) : q[i] \in {" ", "\n"}

\* ---- ingestion, one session (Spec)

\* The files of session s whose processing by add_to_db has ended.
Processed(s) ==
    {i \in 1..Len(uploaded_files[s]) :
        i < idx[s] \/ (i = idx[s] /\ pc[s] \in {"done", "failed"})}

\* C1: in every ingestion call, the temporary file written for an uploaded
\* document no longer exists once processing of that document has ended, on
\* every exit path (insert done, loader failure, splitter failure,
\* embedding/insert failure).
C1_TempFileRemoved ==
    \A s \in Sessions : \A i \in Processed(s) :
        temp[uploaded_files[s][i].name] = NoFile

\* C2: when loading document di of a batch fails, ingestion is aborted for di
\* only: once the call is over every other readable document of the batch,
\* those after di included, has been loaded, split and inserted.
C2_BatchIsolation ==
    \A s \in Sessions :
        (pc[s] \in {"done", "failed"} /\ error[s].kind = "LoadError") =>
            \A j \in (1..Len(uploaded_files[s])) \ {error[s].doc} :
                Parseable(uploaded_files[s][j].bytes) => j \in inserted[s]

\* C3: an empty or whitespace-only query is rejected: its run makes no call
\* to the vector-store search (the embedding function), no call to the
\* generative model, and returns no answer.
C3_BlankQueryRejected ==
    IsBlank(query) =>
        /\ \A i \in 1..Len(calls) : calls[i] \notin {"search", "model"}
        /\ qpc # "returned"

\* C5: no step of an ingestion call or of a query call, failing or not,
\* removes or replaces a record of the collection (the collection before the
\* step is a prefix of the collection after it), and a search with k at least
\* the collection's size returns every record.
C5_AppendOnly ==
    [][/\ IsPrefix(db, db')
       /\ (qpc' = "format" /\ Len(db') <= K) =>
              \A i \in 1..Len(db') :
                  \E j \in 1..Len(retrieved') : retrieved'[j] = i]_vars

C5_Witness ==
    /\ qpc = "format"
    /\ nsubmit = 2
    /\ Len(db) = 3
    /\ Len(retrieved) = 3

\* The chunks of the files before position i of session s's batch.
ChunksBefore(s, i) ==
    Concat([j \in 1..(i - 1) |-> ChunksOf(uploaded_files[s][j])])

\* C6: when an ingestion call fails at document di (load, split or
\* embedding/insert failure), the records of d1..d(i-1) are all in the
\* collection afterwards, in order, right after the records the collection
\* held when the call started, followed by the chunks of di committed before
\* the failure: nothing is rolled back.
C6_PartialCommit ==
    \A s \in Sessions :
        pc[s] = "failed" =>
            LET before == ChunksBefore(s, error[s].doc)
                m == n0[s] + Len(before)
            IN  /\ Len(db) >= m
                /\ SubSeq(db, n0[s] + 1, m) = before
                /\ IsPrefix(SubSeq(db, m + 1, Len(db)),
                            ChunksOf(uploaded_files[s][error[s].doc]))

C6_Witness ==
    /\ pc[1] = "failed"
    /\ error[1] = [kind |-> "EmbeddingError", doc |-> 2]
    /\ uploaded_files[1][1].bytes = "pdfB"
    /\ uploaded_files[1][2].bytes = "pdfA"
    /\ n0[1] = 0
    /\ Len(db) = 2

\* ---- two sessions ingesting (SpecConc)

\* C4: in any interleaving of two concurrent ingestion calls, each call loads
\* exactly its own document's bytes and neither fails because the other wrote
\* or removed a temporary file.
C4_NoInterference ==
    \A s \in Sessions :
        /\ pc[s] \in {"split", "add", "remove", "done", "failed"} =>
               read_bytes[s] = uploaded_file(s).bytes
        /\ error[s].kind # "FileNotFound"

\* ---- queries (SpecQuery)

\* The retriever has answered in the current run.
HasRetrieved ==
    \/ qpc \in {"format", "prompt", "model", "parse", "returned"}
    \/ qpc = "failed" /\ Len(calls) > 1

\* C7: retrieval with k = 5 from a collection of n records is possible for
\* every n and returns exactly min(5, n) distinct records (2 for n = 2, none
\* for n = 0).
C7_TopK ==
    /\ qpc = "retrieve" => ENABLED Retrieve
    /\ HasRetrieved =>
           /\ Len(retrieved) = Min(K, Len(db))
           /\ \A i \in 1..Len(retrieved) : retrieved[i] \in 1..Len(db)
           /\ \A i, j \in 1..Len(retrieved) :
                  retrieved[i] = retrieved[j] => i = j

C7_Witness ==
    /\ qpc = "format"
    /\ Len(db) = 2
    /\ Len(retrieved) = 2

\* C9: in every run the calls are: search once, then prompt rendering, then
\* the model at most once.  A run that returns has made all three; a run that
\* failed stopped at the search or at the model, in the latter case with the
\* context retrieved and the prompt rendered, and calls nothing again.
C9_CallOrder ==
    /\ IsPrefix(calls, <<"search", "prompt", "model">>)
    /\ qpc \in {"parse", "returned"} => Len(calls) = 3
    /\ qpc = "failed" =>
           \/ calls = <<"search">>
           \/ /\ Len(calls) = 3
              /\ prompt = [context |-> format_docs(retrieved_docs),
                           question |-> query]

C9_Witness ==
    /\ qpc = "failed"
    /\ calls = <<"search", "prompt", "model">>
    /\ Len(retrieved) = 3

\* The prompt of the current run has been rendered.
PromptRendered == Len(calls) >= 2

\* Where the i-th text starts in a context joined with a 2-character
\* separator (0-based).
RECURSIVE Offset(_, _)
Offset(texts, i) ==
    IF i = 1 THEN 0 ELSE Offset(texts, i - 1) + Len(texts[i - 1]) + 2

\* C10: the context placed into the prompt is the texts of the retrieved
\* records r1..rm in ranked order, each in full at its place, with exactly
\* "\n\n" between consecutive texts, nothing before the first or after the
\* last, and empty when m = 0.
C10_ContextJoin ==
    PromptRendered =>
        LET texts == [i \in 1..Len(retrieved) |-> db[retrieved[i]].page_content]
            m == Len(texts)
            c == prompt.context
        IN  /\ Len(c) = IF m = 0 THEN 0 ELSE Offset(texts, m) + Len(texts[m])
            /\ \A i \in 1..m :
                   SubSeq(c, Offset(texts, i) + 1,
                          Offset(texts, i) + Len(texts[i])) = texts[i]
            /\ \A i \in 1..(m - 1) :
                   LET e == Offset(texts, i) + Len(texts[i])
                   IN  c[e + 1] = "\n" /\ c[e + 2] = "\n"

C10_Witness ==
    /\ qpc = "model"
    /\ Len(retrieved) = 5
    /\ retrieved[1] = 6
    /\ retrieved[2] = 2

\* ---- the splitter on its own (SpecSplit)

CeilDiv(a, b) == (a + b - 1) \div b

\* C8: with chunk_size=100 and chunk_overlap=50 a page text of L tokens is
\* split into ceil((L - 50) / 50) chunks when L > 100 and into exactly one
\* chunk otherwise, for every L (L = 0 and L = 100 included).
C8_ChunkCount ==
    split_pc = "done" =>
        LET L == Len(split_in)
        IN  Len(split_out) =
                IF L > chunk_size
                THEN CeilDiv(L - chunk_overlap, chunk_size - chunk_overlap)
                ELSE 1

====
